---- MODULE Spec2Model ----
(***************************************************************************)
(* Model of the ledger line parser (src/src/parsers/ledger_parser.py).     *)
(*                                                                         *)
(* A Python str is modelled as the sequence of its whitespace-separated    *)
(* tokens (a line "1-2210 Cash" is <<"1-2210", "Cash">>, the empty string  *)
(* is <<>>); tokens are separated by single blanks and a line has no       *)
(* leading or trailing blank.  The regular expressions of the parser are   *)
(* modelled by what they accept and capture on such token sequences.       *)
(***************************************************************************)
EXTENDS Integers, Sequences, FiniteSets, TLC

\* Bounds of the model.
MaxInput == 2      \* lines and text-less pages read since the parser was constructed
MaxParses == 2     \* calls of parse on the parser

\* Python's None.  No line of the catalogue contains the token "None".
None == <<"None">>

(***************************************************************************)
(* Lexical classes of the tokens used by the line catalogue.               *)
(***************************************************************************)
\* tokens matching \d+
DigitTokens == {"1", "2"}

\* tokens matching \d{1,3}-\d{4}
AccountIdTokens == {"1-2210", "22-3300"}

\* tokens that consist of characters of [\d,.\-] only
BareAmountTokens ==
    DigitTokens \cup AccountIdTokens
        \cup {"0.00", "200.00", "300.00", "500.00", "1000.00", "1300.00", "1500.00"}

\* tokens "$" followed by characters of [\d,.\-], with what follows the "$"
DollarAmounts ==
    ("$200.00" :> "200.00") @@ ("$300.00" :> "300.00") @@ ("$500.00" :> "500.00")
        @@ ("$1000.00" :> "1000.00") @@ ("$1300.00" :> "1300.00")

\* tokens matching \d{1,2}/\d{1,2}/\d{4}, with their longest prefix in [\d,.\-]
DateTokens == ("1/1/2020" :> "1")

\* tokens matching TRX\d{4}[A-Z]{2}, split into groups (TRX\d{4}) and ([A-Z]{2})
TrxTokens ==
    ("TRX0001AB" :> <<"TRX0001", "AB">>) @@ ("TRX0002CD" :> <<"TRX0002", "CD">>)

\* \$?([\d,.\-]+) matching a whole token
IsAmount(tok) == tok \in BareAmountTokens \/ tok \in DOMAIN DollarAmounts

\* \$?([\d,.\-]+) matching at the start of a token (nothing required after it)
StartsWithAmount(tok) == IsAmount(tok) \/ tok \in DOMAIN DateTokens

\* the text captured by ([\d,.\-]+) in \$?([\d,.\-]+) at the start of tok
AmountGroup(tok) ==
    IF tok \in DOMAIN DollarAmounts THEN <<DollarAmounts[tok]>>
    ELSE IF tok \in DOMAIN DateTokens THEN <<DateTokens[tok]>>
    ELSE <<tok>>

\* the substring test `tok in line` for a token sequence tok
Contains(line, tok) ==
    \E i \in 1..(Len(line) - Len(tok) + 1) : SubSeq(line, i, i + Len(tok) - 1) = tok

(***************************************************************************)
(* The patterns of LedgerParser.                                           *)
(***************************************************************************)
\* footer_patterns: ^\*\s*Year-End Adjustments\s*$  and  ^Page\s+\d+\s+of\s+\d+\s*$
footer_patterns(line) ==
    \/ line = <<"*", "Year-End", "Adjustments">>
    \/ /\ Len(line) = 4
       /\ line[1] = "Page"
       /\ line[2] \in DigitTokens
       /\ line[3] = "of"
       /\ line[4] \in DigitTokens

\* any(token in line for token in header_tokens); "To " needs a blank after it
header_tokens(line) ==
    \/ \E tok \in {<<"Created:">>, <<"General", "Ledger">>, <<"Test", "Company">>,
                   <<"Test", "Street">>, <<"ABN:">>, <<"Email:">>} : Contains(line, tok)
    \/ \E i \in 1..(Len(line) - 1) : line[i] = "To"

\* account_header_pattern.match: ^(\d{1,3}-\d{4})\s+(.*)$
account_header_pattern(line) ==
    IF Len(line) >= 2 /\ line[1] \in AccountIdTokens
    THEN [matched |-> TRUE, g1 |-> <<line[1]>>, g2 |-> Tail(line)]
    ELSE [matched |-> FALSE, g1 |-> None, g2 |-> None]

\* positions where Beginning Balance:\s*\$?([\d,.\-]+) matches
BeginningBalanceAt(line) ==
    {i \in 1..(Len(line) - 2) :
        /\ line[i] = "Beginning"
        /\ line[i + 1] = "Balance:"
        /\ StartsWithAmount(line[i + 2])}

\* beginning_balance_pattern.search: the leftmost match
beginning_balance_pattern(line) ==
    IF BeginningBalanceAt(line) # {}
    THEN LET i == CHOOSE j \in BeginningBalanceAt(line) :
                      \A k \in BeginningBalanceAt(line) : j <= k
         IN [matched |-> TRUE, g1 |-> AmountGroup(line[i + 2])]
    ELSE [matched |-> FALSE, g1 |-> None]

\* positions where Total:\s*\$?(..)\s+\$?(..)\s+\$?(..)\s+\$?(..) matches
TotalAt(line) ==
    {i \in 1..(Len(line) - 4) :
        /\ line[i] = "Total:"
        /\ IsAmount(line[i + 1])
        /\ IsAmount(line[i + 2])
        /\ IsAmount(line[i + 3])
        /\ StartsWithAmount(line[i + 4])}

\* total_line_pattern.search: the leftmost match
total_line_pattern(line) ==
    IF TotalAt(line) # {}
    THEN LET i == CHOOSE j \in TotalAt(line) : \A k \in TotalAt(line) : j <= k
         IN [matched |-> TRUE,
             g1 |-> AmountGroup(line[i + 1]), g2 |-> AmountGroup(line[i + 2]),
             g3 |-> AmountGroup(line[i + 3]), g4 |-> AmountGroup(line[i + 4])]
    ELSE [matched |-> FALSE, g1 |-> None, g2 |-> None, g3 |-> None, g4 |-> None]

\* transaction_pattern.match: the line is anchored at both ends, so the last
\* five tokens are debit, credit, job number, net activity and ending balance
\* and the memo is what lies between the date and them (at least one token).
transaction_pattern(line) ==
    LET n == Len(line)
    IN IF /\ n >= 8
          /\ line[1] \in DOMAIN TrxTokens
          /\ line[2] \in DOMAIN DateTokens
          /\ IsAmount(line[n - 4])
          /\ IsAmount(line[n - 3])
          /\ IsAmount(line[n - 1])
          /\ IsAmount(line[n])
       THEN [matched |-> TRUE,
             g1 |-> <<TrxTokens[line[1]][1]>>, g2 |-> <<TrxTokens[line[1]][2]>>,
             g3 |-> <<line[2]>>, g4 |-> SubSeq(line, 3, n - 5),
             g5 |-> AmountGroup(line[n - 4]), g6 |-> AmountGroup(line[n - 3]),
             g7 |-> <<line[n - 2]>>,
             g8 |-> AmountGroup(line[n - 1]), g9 |-> AmountGroup(line[n])]
       ELSE [matched |-> FALSE, g1 |-> None, g2 |-> None, g3 |-> None, g4 |-> None,
             g5 |-> None, g6 |-> None, g7 |-> None, g8 |-> None, g9 |-> None]

\* "Total:" in line
HasTotalLabel(line) == Contains(line, <<"Total:">>)

(***************************************************************************)
(* The line catalogue: the lines a page may consist of.                    *)
(***************************************************************************)
LineCatalogue ==
    { <<"1-2210", "Cash">>,                              \* account header
      <<"22-3300", "Bank">>,                             \* another account header
      <<"Beginning", "Balance:", "$1000.00">>,           \* beginning balance
      <<"Beginning", "Balance:", "500.00">>,             \* another balance, no "$"
      <<"TRX0001AB", "1/1/2020", "Deposit",
        "$500.00", "0.00", "J1", "500.00", "1500.00">>,  \* transaction row
      <<"Total:", "$500.00", "$200.00", "$300.00", "$1300.00">>,  \* total row
      <<"Page", "1", "of", "2">>,                        \* footer
      <<"General", "Ledger">>,                           \* page banner
      <<"ID", "Memo">>,                                  \* column titles: no shape
      <<"Total:", "500.00">>,                            \* total label, amounts missing
      <<"1-2210", "Test", "Company">>,                   \* banner marker in header shape
      <<"TRX0002CD", "1/1/2020", "Total:",
        "1", "2", "300.00", "200.00", "500.00">> }       \* transaction and total shape

\* page.extract_text(): None, or a str given by the lines text.split("\n") yields
\* (at least one; the text "" splits into the single empty line)
PagesUpTo(n) ==
    {[extracted |-> FALSE, lines |-> <<>>], [extracted |-> TRUE, lines |-> << <<>> >>]}
        \cup {[extracted |-> TRUE, lines |-> ls] :
                 ls \in UNION {[1..k -> LineCatalogue] : k \in 1..n}}

\* `not text`
NoText(page) == ~page.extracted \/ page.lines = << <<>> >>

(***************************************************************************)
(* State.                                                                  *)
(***************************************************************************)
VARIABLES
    transactions,               \* self.transactions
    summary,                    \* self.summary
    current_account_id,         \* self.current_account_id
    current_account_desc,       \* self.current_account_desc
    current_beginning_balance,  \* self.current_beginning_balance
    header_lines,               \* self.header_lines
    pc,                         \* where the caller is: "idle", or in parse at "pages" / "lines"
    pages,                      \* the pages of pdf.pages the running parse has taken so far
                                \* (moved to calls when it returns)
    lineNo,                     \* index in the current page's lines of the line to process next
    branch,                     \* the return of _process_line taken by the last line
    entry,                      \* the parser's fields when the running parse was called
    calls                       \* the parse calls that have returned: pages read and result

\* the command line program (src/src/main.py) and the writer
\* (src/src/utils/excel_writer.py)
VARIABLES
    argv,                       \* sys.argv
    fs,                         \* what the source path names: kind, directory listing, documents
    main_pc,                    \* where main is: "start", "run", "loop", "write", "exit";
                                \* "caller" when write is called by another caller
    pdf_files,                  \* the files the for loop of main still has to take
    writer,                     \* the ExcelWriter object: <<>> or <<its fields>>
    written,                    \* the output files that exist
    dirs,                       \* the directories os.makedirs has made
    stdout,                     \* what has been printed
    exit_code,                  \* {} while the process runs, {its exit status} afterwards
    raised,                     \* the exception that was raised and not caught, "" if none
    parsed                      \* the files LedgerParser.parse was called for

parserVars == <<transactions, summary, current_account_id, current_account_desc,
                current_beginning_balance, header_lines, pc, pages, lineNo, branch,
                entry, calls>>

mainVars == <<argv, fs, main_pc, pdf_files, writer, written, dirs, stdout,
              exit_code, raised, parsed>>

vars == <<parserVars, mainVars>>

\* the fields of the parser object
Self ==
    [transactions |-> transactions, summary |-> summary,
     current_account_id |-> current_account_id,
     current_account_desc |-> current_account_desc,
     current_beginning_balance |-> current_beginning_balance,
     header_lines |-> header_lines]

SetSelf(s) ==
    /\ transactions' = s.transactions
    /\ summary' = s.summary
    /\ current_account_id' = s.current_account_id
    /\ current_account_desc' = s.current_account_desc
    /\ current_beginning_balance' = s.current_beginning_balance
    /\ header_lines' = s.header_lines

\* LedgerParser.__init__
NewParser ==
    [transactions |-> <<>>, summary |-> <<>>,
     current_account_id |-> None, current_account_desc |-> None,
     current_beginning_balance |-> None, header_lines |-> <<>>]

(***************************************************************************)
(* LedgerParser._flush_account                                             *)
(***************************************************************************)
\* _flush_account whose zero-totals summary ends at "0.00" instead of the beginning balance
_flush_account_ZeroEnding(self, zero_totals, debit, credit, net, ending) ==
    LET summary_entry ==
            [account_id |-> self.current_account_id,
             account_desc |-> self.current_account_desc,
             beginning_balance |-> self.current_beginning_balance,
             total_debit |-> IF zero_totals THEN <<"0.00">> ELSE debit,
             total_credit |-> IF zero_totals THEN <<"0.00">> ELSE credit,
             total_net_activity |-> IF zero_totals THEN <<"0.00">> ELSE net,
             total_ending_balance |-> IF zero_totals THEN <<"0.00">> ELSE ending]
    IN [self EXCEPT !.summary = Append(self.summary, summary_entry),
                    !.current_account_id = None,
                    !.current_account_desc = None,
                    !.current_beginning_balance = None]

\* _flush_account that puts the new summary before the ones already there
_flush_account_Prepends(self, zero_totals, debit, credit, net, ending) ==
    LET summary_entry ==
            [account_id |-> self.current_account_id,
             account_desc |-> self.current_account_desc,
             beginning_balance |-> self.current_beginning_balance,
             total_debit |-> IF zero_totals THEN <<"0.00">> ELSE debit,
             total_credit |-> IF zero_totals THEN <<"0.00">> ELSE credit,
             total_net_activity |-> IF zero_totals THEN <<"0.00">> ELSE net,
             total_ending_balance |->
                 IF zero_totals \/ ending = <<>>
                 THEN self.current_beginning_balance ELSE ending]
    IN [self EXCEPT !.summary = <<summary_entry>> \o self.summary,
                    !.current_account_id = None,
                    !.current_account_desc = None,
                    !.current_beginning_balance = None]

_flush_account(self, zero_totals, debit, credit, net, ending) ==
    LET summary_entry ==
            IF zero_totals
            THEN [account_id |-> self.current_account_id,
                  account_desc |-> self.current_account_desc,
                  beginning_balance |-> self.current_beginning_balance,
                  total_debit |-> <<"0.00">>,
                  total_credit |-> <<"0.00">>,
                  total_net_activity |-> <<"0.00">>,
                  total_ending_balance |-> self.current_beginning_balance]
            ELSE [account_id |-> self.current_account_id,
                  account_desc |-> self.current_account_desc,
                  beginning_balance |-> self.current_beginning_balance,
                  total_debit |-> debit,
                  total_credit |-> credit,
                  total_net_activity |-> net,
                  total_ending_balance |->
                      IF ending # <<>> THEN ending ELSE self.current_beginning_balance]
    IN [self EXCEPT !.summary = Append(self.summary, summary_entry),
                    !.current_account_id = None,
                    !.current_account_desc = None,
                    !.current_beginning_balance = None]

\* FlushZeroTotals that leaves the account open after appending its summary
FlushZeroTotals_KeepsOpen(self) ==
    [_flush_account(self, TRUE, <<"0.00">>, <<"0.00">>, <<"0.00">>, <<>>)
        EXCEPT !.current_account_id = self.current_account_id,
               !.current_account_desc = self.current_account_desc]

\* _flush_account(zero_totals=True): the other parameters keep their defaults
FlushZeroTotals(self) ==
    _flush_account(self, TRUE, <<"0.00">>, <<"0.00">>, <<"0.00">>, <<>>)

(***************************************************************************)
(* LedgerParser._process_line                                              *)
(***************************************************************************)
\* CaptureHeader without the test for a line captured before
CaptureHeader_Always(self, line) ==
    [self EXCEPT !.header_lines = Append(self.header_lines, line)]

\* 2. a line holding a header token: captured unless it was captured before
CaptureHeader(self, line) ==
    IF \E i \in 1..Len(self.header_lines) : self.header_lines[i] = line
    THEN self
    ELSE [self EXCEPT !.header_lines = Append(self.header_lines, line)]

\* OpenAccount that overwrites an account still open instead of flushing it
OpenAccount_NoFlush(self, header_match) ==
    [self EXCEPT !.current_account_id = header_match.g1,
                 !.current_account_desc = header_match.g2]

\* 3. account header: flush an account that is still open, then open the new one
OpenAccount(self, header_match) ==
    LET flushed == IF self.current_account_id # None THEN FlushZeroTotals(self) ELSE self
    IN [flushed EXCEPT !.current_account_id = header_match.g1,
                       !.current_account_desc = header_match.g2]

\* SetBeginningBalance that also closes the open account with zero totals
SetBeginningBalance_Flushes(self, bb_match) ==
    [(IF self.current_account_id # None THEN FlushZeroTotals(self) ELSE self)
        EXCEPT !.current_beginning_balance = bb_match.g1]

\* 4. beginning balance
SetBeginningBalance(self, bb_match) ==
    [self EXCEPT !.current_beginning_balance = bb_match.g1]

\* TransactionHonoured without the test that an account is open
TransactionHonoured_NoOpenCheck(self, txn_match) ==
    txn_match.matched

\* 5. the transaction row is taken only with an account open
TransactionHonoured(self, txn_match) ==
    txn_match.matched /\ self.current_account_id # None

\* AppendTransaction that takes the account description from the memo
AppendTransaction_DescFromMemo(self, txn_match) ==
    LET txn == [account_id |-> self.current_account_id,
                account_desc |-> txn_match.g4,
                trans_id |-> txn_match.g1,
                src |-> txn_match.g2,
                date |-> txn_match.g3,
                memo |-> txn_match.g4,
                debit |-> txn_match.g5,
                credit |-> txn_match.g6,
                job_no |-> txn_match.g7,
                net_activity |-> txn_match.g8,
                ending_balance |-> txn_match.g9]
    IN [self EXCEPT !.transactions = Append(self.transactions, txn)]

AppendTransaction(self, txn_match) ==
    LET txn == [account_id |-> self.current_account_id,
                account_desc |-> self.current_account_desc,
                trans_id |-> txn_match.g1,
                src |-> txn_match.g2,
                date |-> txn_match.g3,
                memo |-> txn_match.g4,
                debit |-> txn_match.g5,
                credit |-> txn_match.g6,
                job_no |-> txn_match.g7,
                net_activity |-> txn_match.g8,
                ending_balance |-> txn_match.g9]
    IN [self EXCEPT !.transactions = Append(self.transactions, txn)]

\* TotalRow without the test that an account is open
TotalRow_NoOpenCheck(self, line) ==
    LET total_match == total_line_pattern(line)
    IN IF total_match.matched
       THEN _flush_account(self, FALSE, total_match.g1, total_match.g2,
                           total_match.g3, total_match.g4)
       ELSE self

\* TotalRow that closes the open account at the label alone, amounts or not
TotalRow_LabelOnly(self, line) ==
    LET total_match == total_line_pattern(line)
    IN IF self.current_account_id # None
       THEN _flush_account(self, FALSE, total_match.g1, total_match.g2,
                           total_match.g3, total_match.g4)
       ELSE self

\* TotalRow passing credit and debit in each other's place
TotalRow_Swapped(self, line) ==
    LET total_match == total_line_pattern(line)
    IN IF total_match.matched /\ self.current_account_id # None
       THEN _flush_account(self, FALSE, total_match.g2, total_match.g1,
                           total_match.g3, total_match.g4)
       ELSE self

\* 6. a line holding "Total:": flushes with the four amounts if they are there
\* and an account is open
TotalRow(self, line) ==
    LET total_match == total_line_pattern(line)
    IN IF total_match.matched /\ self.current_account_id # None
       THEN _flush_account(self, FALSE, total_match.g1, total_match.g2,
                           total_match.g3, total_match.g4)
       ELSE self

\* _process_line with the total check moved before the transaction check
_process_line_TotalFirst(self, line) ==
    IF footer_patterns(line)
    THEN [self |-> self, branch |-> "footer"]
    ELSE IF header_tokens(line)
    THEN [self |-> CaptureHeader(self, line), branch |-> "header_detail"]
    ELSE IF account_header_pattern(line).matched
    THEN [self |-> OpenAccount(self, account_header_pattern(line)),
          branch |-> "account_header"]
    ELSE IF beginning_balance_pattern(line).matched
    THEN [self |-> SetBeginningBalance(self, beginning_balance_pattern(line)),
          branch |-> "beginning_balance"]
    ELSE IF HasTotalLabel(line)
    THEN [self |-> TotalRow(self, line), branch |-> "total"]
    ELSE IF TransactionHonoured(self, transaction_pattern(line))
    THEN [self |-> AppendTransaction(self, transaction_pattern(line)),
          branch |-> "transaction"]
    ELSE [self |-> self, branch |-> "none"]

\* _process_line whose footer branch closes the open account
_process_line_FooterFlushes(self, line) ==
    IF footer_patterns(line)
    THEN [self |-> IF self.current_account_id # None THEN FlushZeroTotals(self) ELSE self,
          branch |-> "footer"]
    ELSE IF header_tokens(line)
    THEN [self |-> CaptureHeader(self, line), branch |-> "header_detail"]
    ELSE IF account_header_pattern(line).matched
    THEN [self |-> OpenAccount(self, account_header_pattern(line)),
          branch |-> "account_header"]
    ELSE IF beginning_balance_pattern(line).matched
    THEN [self |-> SetBeginningBalance(self, beginning_balance_pattern(line)),
          branch |-> "beginning_balance"]
    ELSE IF TransactionHonoured(self, transaction_pattern(line))
    THEN [self |-> AppendTransaction(self, transaction_pattern(line)),
          branch |-> "transaction"]
    ELSE IF HasTotalLabel(line)
    THEN [self |-> TotalRow(self, line), branch |-> "total"]
    ELSE [self |-> self, branch |-> "none"]

\* _process_line with the account header check moved before the header token check
_process_line_HeaderFirst(self, line) ==
    IF footer_patterns(line)
    THEN [self |-> self, branch |-> "footer"]
    ELSE IF account_header_pattern(line).matched
    THEN [self |-> OpenAccount(self, account_header_pattern(line)),
          branch |-> "account_header"]
    ELSE IF header_tokens(line)
    THEN [self |-> CaptureHeader(self, line), branch |-> "header_detail"]
    ELSE IF beginning_balance_pattern(line).matched
    THEN [self |-> SetBeginningBalance(self, beginning_balance_pattern(line)),
          branch |-> "beginning_balance"]
    ELSE IF TransactionHonoured(self, transaction_pattern(line))
    THEN [self |-> AppendTransaction(self, transaction_pattern(line)),
          branch |-> "transaction"]
    ELSE IF HasTotalLabel(line)
    THEN [self |-> TotalRow(self, line), branch |-> "total"]
    ELSE [self |-> self, branch |-> "none"]

\* the checks in the order of the code; each taken branch returns
_process_line(self, line) ==
    IF footer_patterns(line)
    THEN [self |-> self, branch |-> "footer"]
    ELSE IF header_tokens(line)
    THEN [self |-> CaptureHeader(self, line), branch |-> "header_detail"]
    ELSE IF account_header_pattern(line).matched
    THEN [self |-> OpenAccount(self, account_header_pattern(line)),
          branch |-> "account_header"]
    ELSE IF beginning_balance_pattern(line).matched
    THEN [self |-> SetBeginningBalance(self, beginning_balance_pattern(line)),
          branch |-> "beginning_balance"]
    ELSE IF TransactionHonoured(self, transaction_pattern(line))
    THEN [self |-> AppendTransaction(self, transaction_pattern(line)),
          branch |-> "transaction"]
    ELSE IF HasTotalLabel(line)
    THEN [self |-> TotalRow(self, line), branch |-> "total"]
    ELSE [self |-> self, branch |-> "none"]

(***************************************************************************)
(* History of the input.                                                   *)
(***************************************************************************)
RECURSIVE InputSize(_)
\* the size of a sequence of pages: a text-less page counts one, a page with
\* text counts its lines
InputSize(ps) ==
    IF ps = <<>> THEN 0
    ELSE (IF NoText(ps[1]) THEN 1 ELSE Len(ps[1].lines)) + InputSize(Tail(ps))

RECURSIVE PagesOfCalls(_)
\* the pages read by a sequence of returned calls
PagesOfCalls(cs) ==
    IF cs = <<>> THEN <<>> ELSE cs[1].pages \o PagesOfCalls(Tail(cs))

\* every page taken from a pdf since the parser was constructed
AllPages == PagesOfCalls(calls) \o pages

InputLeft == MaxInput - InputSize(AllPages)

\* the line _process_line is about to be called with
CurrentLine == pages[Len(pages)].lines[lineNo]

(***************************************************************************)
(* LedgerParser.parse                                                      *)
(***************************************************************************)
\* LedgerParser.__init__: a new parser on which parse has not been called
ParserInit ==
    /\ transactions = <<>>
    /\ summary = <<>>
    /\ current_account_id = None
    /\ current_account_desc = None
    /\ current_beginning_balance = None
    /\ header_lines = <<>>
    /\ pc = "idle"
    /\ pages = <<>>
    /\ lineNo = 0
    /\ branch = "none"
    /\ entry = NewParser
    /\ calls = <<>>

\* main has not been started and no writer has been made
MainInit ==
    /\ argv = <<>>
    /\ fs = [kind |-> "missing", names |-> <<>>, docs |-> <<>>]
    /\ main_pc = "start"
    /\ pdf_files = <<>>
    /\ writer = <<>>
    /\ written = {}
    /\ dirs = {}
    /\ stdout = <<>>
    /\ exit_code = {}
    /\ raised = ""
    /\ parsed = <<>>

Init == ParserInit /\ MainInit

\* parse() is called: pdfplumber.open
ParseOpen ==
    /\ pc = "idle"
    /\ Len(calls) < MaxParses
    /\ pc' = "pages"
    /\ pages' = <<>>
    /\ lineNo' = 0
    /\ entry' = Self
    /\ UNCHANGED <<transactions, summary, current_account_id, current_account_desc,
                   current_beginning_balance, header_lines, branch, calls>>
    /\ UNCHANGED mainVars

\* SkipPage that closes the open account at a page without text
SkipPage_Flushes(page) ==
    /\ pc = "pages"
    /\ InputLeft >= 1
    /\ NoText(page)
    /\ pages' = Append(pages, page)
    /\ SetSelf(IF current_account_id # None THEN FlushZeroTotals(Self) ELSE Self)
    /\ UNCHANGED <<pc, lineNo, branch, entry, calls>>
    /\ UNCHANGED mainVars

\* the next page has no text: continue
SkipPage(page) ==
    /\ pc = "pages"
    /\ InputLeft >= 1
    /\ NoText(page)
    /\ pages' = Append(pages, page)
    /\ UNCHANGED <<transactions, summary, current_account_id, current_account_desc,
                   current_beginning_balance, header_lines, pc, lineNo, branch,
                   entry, calls>>
    /\ UNCHANGED mainVars

\* ReadPage that closes the open account at the start of a page
ReadPage_ClosesAccount(page) ==
    /\ pc = "pages"
    /\ InputLeft >= 1
    /\ ~NoText(page)
    /\ pages' = Append(pages, page)
    /\ lineNo' = 1
    /\ pc' = "lines"
    /\ SetSelf(IF current_account_id # None THEN FlushZeroTotals(Self) ELSE Self)
    /\ UNCHANGED <<branch, entry, calls>>
    /\ UNCHANGED mainVars

\* ReadPage that forgets the captured header lines at the start of a page
ReadPage_ResetsHeaders(page) ==
    /\ pc = "pages"
    /\ InputLeft >= 1
    /\ ~NoText(page)
    /\ pages' = Append(pages, page)
    /\ lineNo' = 1
    /\ pc' = "lines"
    /\ header_lines' = <<>>
    /\ UNCHANGED <<transactions, summary, current_account_id, current_account_desc,
                   current_beginning_balance, branch, entry, calls>>
    /\ UNCHANGED mainVars

\* the next page has text: split it into lines
ReadPage(page) ==
    /\ pc = "pages"
    /\ InputLeft >= 1
    /\ ~NoText(page)
    /\ pages' = Append(pages, page)
    /\ lineNo' = 1
    /\ pc' = "lines"
    /\ UNCHANGED <<transactions, summary, current_account_id, current_account_desc,
                   current_beginning_balance, header_lines, branch, entry, calls>>
    /\ UNCHANGED mainVars

\* ProcessLine that hands the line to _process_line twice
ProcessLine_Twice(b) ==
    /\ pc = "lines"
    /\ LET first == _process_line(Self, CurrentLine)
           r == _process_line(first.self, CurrentLine)
       IN /\ r.branch = b
          /\ SetSelf(r.self)
          /\ branch' = b
    /\ IF lineNo < Len(pages[Len(pages)].lines)
       THEN lineNo' = lineNo + 1 /\ pc' = "lines"
       ELSE lineNo' = 0 /\ pc' = "pages"
    /\ UNCHANGED <<pages, entry, calls>>
    /\ UNCHANGED mainVars

\* for line in lines: self._process_line(line), returning at branch b
ProcessLine(b) ==
    /\ pc = "lines"
    /\ LET r == _process_line(Self, CurrentLine)
       IN /\ r.branch = b
          /\ SetSelf(r.self)
          /\ branch' = b
    /\ IF lineNo < Len(pages[Len(pages)].lines)
       THEN lineNo' = lineNo + 1 /\ pc' = "lines"
       ELSE lineNo' = 0 /\ pc' = "pages"
    /\ UNCHANGED <<pages, entry, calls>>
    /\ UNCHANGED mainVars

FooterLine == ProcessLine("footer")
HeaderDetailLine == ProcessLine("header_detail")
AccountHeaderLine == ProcessLine("account_header")
BeginningBalanceLine == ProcessLine("beginning_balance")
TransactionLine == ProcessLine("transaction")
TotalLine == ProcessLine("total")
UnmatchedLine == ProcessLine("none")

\* ParseReturn without the final flush
ParseReturn_NoFinalFlush ==
    /\ pc = "pages"
    /\ calls' = Append(calls, [pages |-> pages, entry |-> entry,
                               transactions |-> transactions, summary |-> summary])
    /\ pc' = "idle"
    /\ pages' = <<>>
    /\ UNCHANGED <<transactions, summary, current_account_id, current_account_desc,
                   current_beginning_balance, header_lines, lineNo, branch, entry>>
    /\ UNCHANGED mainVars

\* ParseReturn whose final flush does not test that an account is open
ParseReturn_AlwaysFlushes ==
    /\ pc = "pages"
    /\ LET s == FlushZeroTotals(Self)
       IN /\ SetSelf(s)
          /\ calls' = Append(calls, [pages |-> pages, entry |-> entry,
                                     transactions |-> s.transactions,
                                     summary |-> s.summary])
    /\ pc' = "idle"
    /\ pages' = <<>>
    /\ UNCHANGED <<lineNo, branch, entry>>
    /\ UNCHANGED mainVars

\* the pages are exhausted: final flush, return self.transactions, self.summary
ParseReturn ==
    /\ pc = "pages"
    /\ LET s == IF current_account_id # None THEN FlushZeroTotals(Self) ELSE Self
       IN /\ SetSelf(s)
          /\ calls' = Append(calls, [pages |-> pages, entry |-> entry,
                                     transactions |-> s.transactions,
                                     summary |-> s.summary])
    /\ pc' = "idle"
    /\ pages' = <<>>
    /\ UNCHANGED <<lineNo, branch, entry>>
    /\ UNCHANGED mainVars

Next ==
    \/ ParseOpen
    \/ \E page \in PagesUpTo(0) : SkipPage(page)
    \/ \E page \in PagesUpTo(InputLeft) : ReadPage(page)
    \/ FooterLine
    \/ HeaderDetailLine
    \/ AccountHeaderLine
    \/ BeginningBalanceLine
    \/ TransactionLine
    \/ TotalLine
    \/ UnmatchedLine
    \/ ParseReturn

Spec == Init /\ [][Next]_vars

(***************************************************************************)
(* What the input read so far contains.                                    *)
(***************************************************************************)
RECURSIVE LinesOf(_)
\* the lines of the pages that have text, in page order and in-page order
LinesOf(ps) ==
    IF ps = <<>> THEN <<>>
    ELSE (IF NoText(ps[1]) THEN <<>> ELSE ps[1].lines) \o LinesOf(Tail(ps))

\* the lines _process_line has returned from since the parser was constructed
ProcessedLines ==
    IF pc = "lines"
    THEN LinesOf(SubSeq(AllPages, 1, Len(AllPages) - 1))
             \o SubSeq(AllPages[Len(AllPages)].lines, 1, lineNo - 1)
    ELSE LinesOf(AllPages)

\* a line of the account header shape that no earlier check takes
OpensAccount(line) ==
    /\ ~footer_patterns(line)
    /\ ~header_tokens(line)
    /\ account_header_pattern(line).matched

\* the account ids of the header lines among lines, in their order
OpenedIds(lines) ==
    LET hs == SelectSeq(lines, OpensAccount)
    IN [i \in 1..Len(hs) |-> account_header_pattern(hs[i]).g1]

\* parse has returned at least once and is not running
Returned == pc = "idle" /\ calls # <<>>

\* summary k is the zero / beginning-balance summary of a flush without totals
IsSynthetic(s) ==
    /\ s.total_debit = <<"0.00">>
    /\ s.total_credit = <<"0.00">>
    /\ s.total_net_activity = <<"0.00">>
    /\ s.total_ending_balance = s.beginning_balance

(***************************************************************************)
(* C1. When parse has returned, the summaries correspond one to one, in    *)
(* order, to the account header lines that opened an account: there are as *)
(* many summaries as such headers and the k-th summary carries the         *)
(* account_id of the k-th header, whether or not a totals line followed.   *)
(***************************************************************************)
C1_AccountClosureComplete ==
    Returned =>
        LET ids == OpenedIds(ProcessedLines)
        IN /\ Len(summary) = Len(ids)
           /\ \A k \in 1..Len(ids) : summary[k].account_id = ids[k]

\* two headers and no totals line: one forced flush, one final flush
C1_Witness ==
    /\ Returned
    /\ Len(OpenedIds(ProcessedLines)) = 2
    /\ \A i \in 1..Len(ProcessedLines) : ~HasTotalLabel(ProcessedLines[i])
    /\ Len(summary) = 2
    /\ IsSynthetic(summary[1]) /\ IsSynthetic(summary[2])

(***************************************************************************)
(* C2. In every state each transaction of the list has an account_id that  *)
(* is not None and is the id of an account header line processed before.   *)
(***************************************************************************)
C2_NoOrphanTransactions ==
    \A i \in 1..Len(transactions) :
        /\ transactions[i].account_id # None
        /\ \E k \in 1..Len(OpenedIds(ProcessedLines)) :
               OpenedIds(ProcessedLines)[k] = transactions[i].account_id

\* a transaction row after an account header was appended with the header's id
C2_Witness ==
    /\ Len(ProcessedLines) = 2
    /\ OpensAccount(ProcessedLines[1])
    /\ transaction_pattern(ProcessedLines[2]).matched
    /\ Len(transactions) = 1
    /\ transactions[1].account_id = account_header_pattern(ProcessedLines[1]).g1

(***************************************************************************)
(* C3. Each processed line has the effect of the earliest check it         *)
(* matches, in the order footer, header token, account header, beginning   *)
(* balance, transaction, total, and of no later one: a footer changes      *)
(* nothing; a line with a header token opens and closes no account and     *)
(* adds no record; an account header line adds no transaction; a beginning *)
(* balance line adds no record and keeps the account; a line of            *)
(* transaction shape never flushes; a line of no shape changes nothing.    *)
(***************************************************************************)
C3_Step ==
    pc = "lines" =>
        LET line == CurrentLine
        IN IF footer_patterns(line)
           THEN /\ branch' = "footer"
                /\ UNCHANGED <<transactions, summary, current_account_id,
                               current_account_desc, current_beginning_balance,
                               header_lines>>
           ELSE IF header_tokens(line)
           THEN /\ branch' = "header_detail"
                /\ UNCHANGED <<transactions, summary, current_account_id,
                               current_account_desc, current_beginning_balance>>
           ELSE IF account_header_pattern(line).matched
           THEN /\ branch' = "account_header"
                /\ current_account_id' = account_header_pattern(line).g1
                /\ UNCHANGED <<transactions, header_lines>>
           ELSE IF beginning_balance_pattern(line).matched
           THEN /\ branch' = "beginning_balance"
                /\ UNCHANGED <<transactions, summary, current_account_id,
                               current_account_desc, header_lines>>
           ELSE IF transaction_pattern(line).matched
           THEN /\ UNCHANGED <<summary, current_account_id, current_account_desc,
                               current_beginning_balance, header_lines>>
                /\ IF current_account_id # None
                   THEN branch' = "transaction"
                        /\ Len(transactions') = Len(transactions) + 1
                   ELSE transactions' = transactions
           ELSE IF HasTotalLabel(line)
           THEN /\ branch' = "total"
                /\ UNCHANGED <<transactions, header_lines>>
           ELSE /\ branch' = "none"
                /\ UNCHANGED <<transactions, summary, current_account_id,
                               current_account_desc, current_beginning_balance,
                               header_lines>>

C3_EarliestBranchWins == [][C3_Step]_vars

\* a line with a header token and of the account header shape was taken as
\* a header detail and opened no account
C3_Witness ==
    /\ ProcessedLines # <<>>
    /\ LET line == ProcessedLines[Len(ProcessedLines)]
       IN /\ header_tokens(line)
          /\ account_header_pattern(line).matched
    /\ branch = "header_detail"
    /\ current_account_id = None
    /\ summary = <<>>

(***************************************************************************)
(* C4. The final flush of parse, taken when the pages are exhausted with   *)
(* an account open, appends exactly one summary, for that account, with    *)
(* total_debit, total_credit and total_net_activity "0.00" and             *)
(* total_ending_balance equal to the beginning balance of the open         *)
(* context, and appends no transaction; when parse has returned and no     *)
(* line read had the transaction shape, the transaction list is empty.     *)
(***************************************************************************)
C4_FinalFlushStep ==
    (pc = "pages" /\ pc' = "idle" /\ current_account_id # None) =>
        /\ Len(summary') = Len(summary) + 1
        /\ SubSeq(summary', 1, Len(summary)) = summary
        /\ LET s == summary'[Len(summary')]
           IN /\ s.account_id = current_account_id
              /\ s.total_debit = <<"0.00">>
              /\ s.total_credit = <<"0.00">>
              /\ s.total_net_activity = <<"0.00">>
              /\ s.total_ending_balance = current_beginning_balance
        /\ transactions' = transactions

C4_NoTransactionLines ==
    (Returned /\ \A i \in 1..Len(ProcessedLines) :
                     ~transaction_pattern(ProcessedLines[i]).matched)
        => transactions = <<>>

C4_ZeroTotalsSynthesis == [][C4_FinalFlushStep]_vars /\ []C4_NoTransactionLines

\* header, beginning balance, end of input: one summary ending at the balance
C4_Witness ==
    /\ Returned
    /\ Len(ProcessedLines) = 2
    /\ OpensAccount(ProcessedLines[1])
    /\ beginning_balance_pattern(ProcessedLines[2]).matched
    /\ transactions = <<>>
    /\ Len(summary) = 1
    /\ summary[1].total_debit = <<"0.00">>
    /\ summary[1].total_ending_balance = <<"1000.00">>

(***************************************************************************)
(* C5. A line that reaches the total check with the four amounts, while an *)
(* account is open, appends exactly one summary with the account_id,       *)
(* account_desc and beginning_balance of the open context and the line's   *)
(* four amounts as total_debit, total_credit, total_net_activity and       *)
(* total_ending_balance, in that order; afterwards the three context       *)
(* fields are None and the transaction list is unchanged.                  *)
(***************************************************************************)
\* a line no check before the total check takes (lines of transaction shape
\* are taken by the transaction check when an account is open)
IsTotalsLine(line) ==
    /\ ~footer_patterns(line)
    /\ ~header_tokens(line)
    /\ ~account_header_pattern(line).matched
    /\ ~beginning_balance_pattern(line).matched
    /\ ~transaction_pattern(line).matched
    /\ total_line_pattern(line).matched

C5_Step ==
    (pc = "lines" /\ IsTotalsLine(CurrentLine) /\ current_account_id # None) =>
        /\ summary' = Append(summary,
               [account_id |-> current_account_id,
                account_desc |-> current_account_desc,
                beginning_balance |-> current_beginning_balance,
                total_debit |-> total_line_pattern(CurrentLine).g1,
                total_credit |-> total_line_pattern(CurrentLine).g2,
                total_net_activity |-> total_line_pattern(CurrentLine).g3,
                total_ending_balance |-> total_line_pattern(CurrentLine).g4])
        /\ current_account_id' = None
        /\ current_account_desc' = None
        /\ current_beginning_balance' = None
        /\ transactions' = transactions

C5_TotalsLineCloses == [][C5_Step]_vars

\* "Total: $500.00 $200.00 $300.00 $1300.00" closed account 1-2210
C5_Witness ==
    /\ branch = "total"
    /\ Len(summary) = 1
    /\ summary[1].account_id = <<"1-2210">>
    /\ summary[1].total_debit = <<"500.00">>
    /\ summary[1].total_credit = <<"200.00">>
    /\ summary[1].total_net_activity = <<"300.00">>
    /\ summary[1].total_ending_balance = <<"1300.00">>
    /\ current_account_id = None

(***************************************************************************)
(* C6. An account header handled while an account is open first appends    *)
(* the zero / beginning-balance summary of the open account and then opens *)
(* the new account with a fresh context; in every state the account ids of *)
(* the summary list are, in order, those of the first header lines read.   *)
(***************************************************************************)
C6_Step ==
    (pc = "lines" /\ OpensAccount(CurrentLine) /\ current_account_id # None) =>
        /\ summary' = Append(summary,
               [account_id |-> current_account_id,
                account_desc |-> current_account_desc,
                beginning_balance |-> current_beginning_balance,
                total_debit |-> <<"0.00">>,
                total_credit |-> <<"0.00">>,
                total_net_activity |-> <<"0.00">>,
                total_ending_balance |-> current_beginning_balance])
        /\ current_account_id' = account_header_pattern(CurrentLine).g1
        /\ current_account_desc' = account_header_pattern(CurrentLine).g2
        /\ current_beginning_balance' = None

C6_HeaderOrder ==
    /\ Len(summary) <= Len(OpenedIds(ProcessedLines))
    /\ \A k \in 1..Len(summary) : summary[k].account_id = OpenedIds(ProcessedLines)[k]

C6_ForcedFlushInOrder == [][C6_Step]_vars /\ []C6_HeaderOrder

\* two consecutive headers: the first account was flushed, the second is open
C6_Witness ==
    /\ Len(ProcessedLines) = 2
    /\ OpensAccount(ProcessedLines[1])
    /\ OpensAccount(ProcessedLines[2])
    /\ ProcessedLines[1] # ProcessedLines[2]
    /\ Len(summary) = 1
    /\ summary[1].account_id = account_header_pattern(ProcessedLines[1]).g1
    /\ IsSynthetic(summary[1])
    /\ current_account_id = account_header_pattern(ProcessedLines[2]).g1

(***************************************************************************)
(* C7. When parse has returned, every transaction's account_id is the      *)
(* account_id of some summary.  A step that appends a transaction appends  *)
(* it to the account block that is open, which is the first block without  *)
(* a summary, and appends no summary; a step that appends a summary        *)
(* appends no transaction.                                                 *)
(***************************************************************************)
C7_Step ==
    /\ transactions' # transactions =>
          /\ summary' = summary
          /\ Len(summary) < Len(OpenedIds(ProcessedLines))
          /\ transactions'[Len(transactions')].account_id
                 = OpenedIds(ProcessedLines)[Len(summary) + 1]
    /\ summary' # summary => transactions' = transactions

C7_AtReturn ==
    Returned =>
        \A i \in 1..Len(transactions) :
            \E k \in 1..Len(summary) : summary[k].account_id = transactions[i].account_id

C7_SummaryAfterTransactions == [][C7_Step]_vars /\ []C7_AtReturn

\* header, transaction, end of input
C7_Witness ==
    /\ Returned
    /\ Len(transactions) = 1
    /\ Len(summary) = 1
    /\ summary[1].account_id = transactions[1].account_id

(***************************************************************************)
(* parse as a function of the parser's fields at the call and of the pages *)
(***************************************************************************)
RECURSIVE ProcessLines(_, _)
\* for line in lines: self._process_line(line)
ProcessLines(self, lines) ==
    IF lines = <<>> THEN self
    ELSE ProcessLines(_process_line(self, lines[1]).self, Tail(lines))

RECURSIVE ProcessPages(_, _)
\* for page in pdf.pages: skip it if it has no text, else process its lines
ProcessPages(self, ps) ==
    IF ps = <<>> THEN self
    ELSE ProcessPages(IF NoText(ps[1]) THEN self ELSE ProcessLines(self, ps[1].lines),
                      Tail(ps))

\* parse(): the pages, the final flush, and the two lists returned
parse(self, ps) ==
    LET done == ProcessPages(self, ps)
        final == IF done.current_account_id # None THEN FlushZeroTotals(done) ELSE done
    IN [transactions |-> final.transactions, summary |-> final.summary]

\* seq without its k-th element
RemoveAt(seq, k) == SubSeq(seq, 1, k - 1) \o SubSeq(seq, k + 1, Len(seq))

(***************************************************************************)
(* C8. The result of a parse call depends only on the pages it reads: two  *)
(* calls on the same parser object that read the same pages return the     *)
(* same transactions and the same summaries.                               *)
(***************************************************************************)
C8_FreshContextPerParse ==
    \A i, j \in 1..Len(calls) :
        calls[i].pages = calls[j].pages =>
            /\ calls[i].transactions = calls[j].transactions
            /\ calls[i].summary = calls[j].summary

(***************************************************************************)
(* C9. Whenever current_account_id is None, current_account_desc and       *)
(* current_beginning_balance are None too.                                 *)
(***************************************************************************)
C9_ClosedContextAbsent ==
    current_account_id = None =>
        /\ current_account_desc = None
        /\ current_beginning_balance = None

(***************************************************************************)
(* C10. Taking a page without text (None or "") changes none of the        *)
(* transaction list, the summary list, the account context and the header  *)
(* lines, and what a parse call returns is what parse gives from the same  *)
(* fields on the pages it read with any one such page removed.             *)
(***************************************************************************)
C10_SkipStep ==
    (Len(pages') = Len(pages) + 1 /\ NoText(pages'[Len(pages')])) =>
        UNCHANGED <<transactions, summary, current_account_id, current_account_desc,
                    current_beginning_balance, header_lines>>

C10_PageRemoved ==
    \A i \in 1..Len(calls) :
        \A k \in 1..Len(calls[i].pages) :
            NoText(calls[i].pages[k]) =>
                [transactions |-> calls[i].transactions, summary |-> calls[i].summary]
                    = parse(calls[i].entry, RemoveAt(calls[i].pages, k))

C10_EmptyPageSkipped == [][C10_SkipStep]_vars /\ []C10_PageRemoved

\* a page with the text "" was taken while an account was open, and parse returned
C10_Witness ==
    /\ Returned
    /\ Len(calls[1].pages) = 2
    /\ ~NoText(calls[1].pages[1])
    /\ calls[1].pages[2] = [extracted |-> TRUE, lines |-> << <<>> >>]
    /\ Len(calls[1].summary) = 1
    /\ IsSynthetic(calls[1].summary[1])

(***************************************************************************)
(* C11. Processing a line that matches no recognized shape (no footer, no  *)
(* header token, no account header, no beginning balance, no transaction   *)
(* row, no total with its four amounts) leaves the transaction list, the   *)
(* summary list, the three account context fields and the header lines     *)
(* unchanged, and the parse goes on to the next line.                      *)
(***************************************************************************)
Unrecognized(line) ==
    /\ ~footer_patterns(line)
    /\ ~header_tokens(line)
    /\ ~account_header_pattern(line).matched
    /\ ~beginning_balance_pattern(line).matched
    /\ ~transaction_pattern(line).matched
    /\ ~total_line_pattern(line).matched

C11_Step ==
    (pc = "lines" /\ Unrecognized(CurrentLine)) =>
        /\ UNCHANGED <<transactions, summary, current_account_id,
                       current_account_desc, current_beginning_balance, header_lines>>
        /\ pc' \in {"lines", "pages"}

C11_UnrecognizedLineIgnored == [][C11_Step]_vars

\* "Total: 500.00" was read with an account open, which is still open
C11_Witness ==
    /\ Len(ProcessedLines) = 2
    /\ OpensAccount(ProcessedLines[1])
    /\ Unrecognized(ProcessedLines[2])
    /\ HasTotalLabel(ProcessedLines[2])
    /\ current_account_id = account_header_pattern(ProcessedLines[1]).g1
    /\ summary = <<>>

(***************************************************************************)
(* C12. A line holding a header token adds no record and leaves the three  *)
(* account context fields as they are; it is appended to header_lines if   *)
(* it is not in them yet and changes nothing otherwise; header_lines never *)
(* holds the same line twice.                                              *)
(***************************************************************************)
InHeaderLines(line) == \E i \in 1..Len(header_lines) : header_lines[i] = line

C12_Step ==
    (pc = "lines" /\ header_tokens(CurrentLine)) =>
        /\ UNCHANGED <<transactions, summary, current_account_id,
                       current_account_desc, current_beginning_balance>>
        /\ IF InHeaderLines(CurrentLine)
           THEN header_lines' = header_lines
           ELSE header_lines' = Append(header_lines, CurrentLine)

C12_NoDuplicate ==
    \A i, j \in 1..Len(header_lines) : header_lines[i] = header_lines[j] => i = j

C12_BannerCapturedOnce == [][C12_Step]_vars /\ []C12_NoDuplicate

\* the same banner line was read on two pages and is captured once
C12_Witness ==
    /\ Len(AllPages) = 2
    /\ Len(ProcessedLines) = 2
    /\ header_tokens(ProcessedLines[1])
    /\ ProcessedLines[2] = ProcessedLines[1]
    /\ header_lines = <<ProcessedLines[1]>>
    /\ transactions = <<>> /\ summary = <<>>

(***************************************************************************)
(* C13. Processing a footer line (the year-end adjustment marker or        *)
(* "Page X of Y") appends no summary and no transaction and leaves the     *)
(* account context and the header lines unchanged: an account open before  *)
(* the footer is open after it.                                            *)
(***************************************************************************)
C13_Step ==
    (pc = "lines" /\ footer_patterns(CurrentLine)) =>
        UNCHANGED <<transactions, summary, current_account_id,
                    current_account_desc, current_beginning_balance, header_lines>>

C13_FooterDiscarded == [][C13_Step]_vars

\* "Page 1 of 2" was read inside an account block, which is still open
C13_Witness ==
    /\ Len(ProcessedLines) = 2
    /\ OpensAccount(ProcessedLines[1])
    /\ footer_patterns(ProcessedLines[2])
    /\ branch = "footer"
    /\ current_account_id = account_header_pattern(ProcessedLines[1]).g1
    /\ current_account_desc = account_header_pattern(ProcessedLines[1]).g2
    /\ summary = <<>>

(***************************************************************************)
(* C18. A line that reaches the transaction check and has the transaction  *)
(* shape, processed while an account is open, appends exactly one record   *)
(* at the end of the transaction list, with the account_id and             *)
(* account_desc of the open account (the last account header read) and    *)
(* the nine captured fields, and leaves the account context, the summary   *)
(* list and the header lines unchanged.                                    *)
(***************************************************************************)
\* a line of transaction shape that no check before the transaction check takes
IsTransactionLine(line) ==
    /\ ~footer_patterns(line)
    /\ ~header_tokens(line)
    /\ ~account_header_pattern(line).matched
    /\ ~beginning_balance_pattern(line).matched
    /\ transaction_pattern(line).matched

C18_Step ==
    (pc = "lines" /\ IsTransactionLine(CurrentLine) /\ current_account_id # None) =>
        LET m == transaction_pattern(CurrentLine)
            ids == OpenedIds(ProcessedLines)
        IN /\ transactions' = Append(transactions,
                  [account_id |-> current_account_id,
                   account_desc |-> current_account_desc,
                   trans_id |-> m.g1, src |-> m.g2, date |-> m.g3, memo |-> m.g4,
                   debit |-> m.g5, credit |-> m.g6, job_no |-> m.g7,
                   net_activity |-> m.g8, ending_balance |-> m.g9])
           /\ ids # <<>>
           /\ current_account_id = ids[Len(ids)]
           /\ UNCHANGED <<summary, current_account_id, current_account_desc,
                          current_beginning_balance, header_lines>>

C18_TransactionAppended == [][C18_Step]_vars

\* "22-3300 Bank" then the TRX0001 row: one transaction of account 22-3300 / Bank
C18_Witness ==
    /\ branch = "transaction"
    /\ Len(transactions) = 1
    /\ transactions[1].account_id = <<"22-3300">>
    /\ transactions[1].account_desc = <<"Bank">>
    /\ transactions[1].trans_id = <<"TRX0001">>
    /\ transactions[1].memo = <<"Deposit">>
    /\ transactions[1].debit = <<"500.00">>
    /\ current_account_id = <<"22-3300">>
    /\ summary = <<>>

(***************************************************************************)
(* C19. A line of transaction shape processed while no account is open     *)
(* appends no transaction and no summary and leaves the account closed,    *)
(* whether or not the line also holds the total label and four amounts.    *)
(***************************************************************************)
C19_Step ==
    (pc = "lines" /\ IsTransactionLine(CurrentLine) /\ current_account_id = None) =>
        /\ UNCHANGED <<transactions, summary, current_account_id,
                       current_account_desc, current_beginning_balance, header_lines>>
        /\ branch' \in {"total", "none"}

C19_OrphanTransactionDropped == [][C19_Step]_vars

\* the row that also has the total shape was read with no account open
C19_Witness ==
    /\ ProcessedLines # <<>>
    /\ IsTransactionLine(ProcessedLines[Len(ProcessedLines)])
    /\ total_line_pattern(ProcessedLines[Len(ProcessedLines)]).matched
    /\ OpenedIds(ProcessedLines) = <<>>
    /\ branch = "total"
    /\ transactions = <<>>
    /\ summary = <<>>
    /\ current_account_id = None

(***************************************************************************)
(* C20. A line that has both the transaction shape and the total shape,    *)
(* processed while an account is open, is taken by the transaction check:  *)
(* one transaction is appended, no summary is appended and the account     *)
(* stays open.                                                             *)
(***************************************************************************)
C20_Step ==
    (/\ pc = "lines"
     /\ IsTransactionLine(CurrentLine)
     /\ total_line_pattern(CurrentLine).matched
     /\ current_account_id # None) =>
        /\ branch' = "transaction"
        /\ Len(transactions') = Len(transactions) + 1
        /\ SubSeq(transactions', 1, Len(transactions)) = transactions
        /\ summary' = summary
        /\ current_account_id' = current_account_id
        /\ current_account_id' # None

C20_TransactionBeforeTotal == [][C20_Step]_vars

\* header, then the row with "Total:" as its memo: a transaction, no summary
C20_Witness ==
    /\ Len(ProcessedLines) = 2
    /\ OpensAccount(ProcessedLines[1])
    /\ IsTransactionLine(ProcessedLines[2])
    /\ total_line_pattern(ProcessedLines[2]).matched
    /\ Len(transactions) = 1
    /\ transactions[1].memo = <<"Total:">>
    /\ summary = <<>>
    /\ current_account_id = account_header_pattern(ProcessedLines[1]).g1

(***************************************************************************)
(* ExcelWriter (src/src/utils/excel_writer.py)                             *)
(***************************************************************************)
\* ExcelWriter.write without the test of the summary
write_NoSummaryCheck(w, writable) ==
    IF w.transactions = <<>>
    THEN [raises |-> "ValueError", created |-> FALSE]
    ELSE IF ~writable
    THEN [raises |-> "IOError", created |-> FALSE]
    ELSE [raises |-> "", created |-> TRUE]

\* ExcelWriter.write on the writer fields w; writable says whether the
\* destination can be written.  The result names the exception raised ("" if
\* none) and tells whether the file at output_path was made.
write(w, writable) ==
    IF w.transactions = <<>>
    THEN [raises |-> "ValueError", created |-> FALSE]
    ELSE IF w.summary = <<>>
    THEN [raises |-> "ValueError", created |-> FALSE]
    ELSE IF ~writable
    THEN [raises |-> "IOError", created |-> FALSE]
    ELSE [raises |-> "", created |-> TRUE]

(***************************************************************************)
(* main (src/src/main.py)                                                  *)
(***************************************************************************)
\* the names a directory may hold, with f.lower() and os.path.splitext(f)
FileNames == {"a.pdf", "B.PDF", "notes.txt"}

Lower == ("a.pdf" :> "a.pdf") @@ ("B.PDF" :> "b.pdf") @@ ("notes.txt" :> "notes.txt")

Splitext ==
    ("a.pdf" :> <<"a", ".pdf">>) @@ ("B.PDF" :> <<"B", ".PDF">>)
        @@ ("notes.txt" :> <<"notes", ".txt">>)

\* f.lower().endswith('.pdf')
IsPdf(f) == Lower[f] \in {"a.pdf", "b.pdf"}

\* the documents a file may hold, as the pages pdfplumber gives for them:
\* an account with one transaction; an account without transactions; no text
Documents ==
    { << [extracted |-> TRUE,
          lines |-> << <<"1-2210", "Cash">>,
                       <<"TRX0001AB", "1/1/2020", "Deposit",
                         "$500.00", "0.00", "J1", "500.00", "1500.00">> >>] >>,
      << [extracted |-> TRUE, lines |-> << <<"1-2210", "Cash">> >>] >>,
      << [extracted |-> FALSE, lines |-> <<>>] >> }

\* the sequences without repetition of names from S: what os.listdir may give
RECURSIVE Listings(_)
Listings(S) ==
    {<<>>} \cup UNION {{<<f>> \o l : l \in Listings(S \ {f})} : f \in S}

\* what the source path may name: a directory, a single file, or nothing
FileSystems ==
    {[kind |-> "dir", names |-> l, docs |-> d] :
         l \in Listings(FileNames), d \in [FileNames -> Documents]}
        \cup {[kind |-> k, names |-> <<>>, docs |-> d] :
                k \in {"file", "missing"}, d \in [{"a.pdf"} -> Documents]}

Arguments == {<<"main.py">>, <<"main.py", "in">>, <<"main.py", "in", "out">>}

\* sys.argv[2] if len(sys.argv) > 2 else "output"
OutputDir == IF Len(argv) > 2 THEN argv[3] ELSE "output"

\* os.path.join(output_dir, f"{base_name}.xlsx")
OutputExcel(pdf_file) ==
    [dir |-> OutputDir, base_name |-> Splitext[pdf_file][1], ext |-> ".xlsx"]

\* the process is started with arguments a on file system f
MainStart(a, f) ==
    /\ main_pc = "start"
    /\ argv' = a
    /\ fs' = f
    /\ main_pc' = "run"
    /\ UNCHANGED <<pdf_files, writer, written, dirs, stdout, exit_code, raised, parsed>>
    /\ UNCHANGED parserVars

\* MainUsage that exits with status 0
MainUsage_ExitZero ==
    /\ main_pc = "run"
    /\ Len(argv) < 2
    /\ stdout' = Append(stdout, <<"Usage: python main.py <input_directory> [output_directory]">>)
    /\ exit_code' = {0}
    /\ main_pc' = "exit"
    /\ UNCHANGED <<argv, fs, pdf_files, writer, written, dirs, raised, parsed>>
    /\ UNCHANGED parserVars

\* len(sys.argv) < 2: print the usage and sys.exit(1)
MainUsage ==
    /\ main_pc = "run"
    /\ Len(argv) < 2
    /\ stdout' = Append(stdout, <<"Usage: python main.py <input_directory> [output_directory]">>)
    /\ exit_code' = {1}
    /\ main_pc' = "exit"
    /\ UNCHANGED <<argv, fs, pdf_files, writer, written, dirs, raised, parsed>>
    /\ UNCHANGED parserVars

\* MainList that takes the path of a single file as a list of that one file
MainList_AcceptsFile ==
    /\ main_pc = "run"
    /\ Len(argv) >= 2
    /\ dirs' = dirs \cup {OutputDir}
    /\ IF fs.kind = "missing"
       THEN /\ raised' = "FileNotFoundError"
            /\ exit_code' = {1}
            /\ main_pc' = "exit"
            /\ UNCHANGED <<pdf_files, stdout>>
       ELSE LET found == IF fs.kind = "file" THEN <<"a.pdf">>
                         ELSE SelectSeq(fs.names, IsPdf)
            IN IF found = <<>>
               THEN /\ stdout' = Append(stdout, <<"No PDF files found in", argv[2]>>)
                    /\ exit_code' = {0}
                    /\ main_pc' = "exit"
                    /\ UNCHANGED <<pdf_files, raised>>
               ELSE /\ pdf_files' = found
                    /\ main_pc' = "loop"
                    /\ UNCHANGED <<stdout, exit_code, raised>>
    /\ UNCHANGED <<argv, fs, writer, written, parsed>>
    /\ UNCHANGED parserVars

\* os.makedirs(output_dir), os.listdir(input_dir) and the test for no PDF
\* file; os.listdir raises for a path that is not a directory, and the
\* exception is not caught (exit status 1)
MainList ==
    /\ main_pc = "run"
    /\ Len(argv) >= 2
    /\ dirs' = dirs \cup {OutputDir}
    /\ IF fs.kind # "dir"
       THEN /\ raised' = IF fs.kind = "file" THEN "NotADirectoryError"
                         ELSE "FileNotFoundError"
            /\ exit_code' = {1}
            /\ main_pc' = "exit"
            /\ UNCHANGED <<pdf_files, stdout>>
       ELSE LET found == SelectSeq(fs.names, IsPdf)
            IN IF found = <<>>
               THEN /\ stdout' = Append(stdout, <<"No PDF files found in", argv[2]>>)
                    /\ exit_code' = {0}
                    /\ main_pc' = "exit"
                    /\ UNCHANGED <<pdf_files, raised>>
               ELSE /\ pdf_files' = found
                    /\ main_pc' = "loop"
                    /\ UNCHANGED <<stdout, exit_code, raised>>
    /\ UNCHANGED <<argv, fs, writer, written, parsed>>
    /\ UNCHANGED parserVars

\* for pdf_file in pdf_files: a new LedgerParser, parse(), a new ExcelWriter
MainParse ==
    /\ main_pc = "loop"
    /\ pdf_files # <<>>
    /\ LET pdf_file == Head(pdf_files)
           result == parse(NewParser, fs.docs[pdf_file])
       IN /\ writer' = <<[transactions |-> result.transactions,
                          summary |-> result.summary,
                          output_path |-> OutputExcel(pdf_file)]>>
          /\ parsed' = Append(parsed, pdf_file)
    /\ main_pc' = "write"
    /\ UNCHANGED <<argv, fs, pdf_files, written, dirs, stdout, exit_code, raised>>
    /\ UNCHANGED parserVars

\* writer.write() and the print that follows; an exception of write is not
\* caught (exit status 1)
MainWrite(writable) ==
    /\ main_pc = "write"
    /\ LET out == write(writer[1], writable)
       IN IF out.raises # ""
          THEN /\ raised' = out.raises
               /\ exit_code' = {1}
               /\ main_pc' = "exit"
               /\ UNCHANGED <<pdf_files, written, stdout>>
          ELSE /\ written' = written \cup {writer[1].output_path}
               /\ stdout' = Append(stdout, <<"Processed", Head(pdf_files)>>)
               /\ pdf_files' = Tail(pdf_files)
               /\ main_pc' = "loop"
               /\ UNCHANGED <<raised, exit_code>>
    /\ UNCHANGED <<argv, fs, writer, dirs, parsed>>
    /\ UNCHANGED parserVars

\* the loop is over: main returns
MainEnd ==
    /\ main_pc = "loop"
    /\ pdf_files = <<>>
    /\ exit_code' = {0}
    /\ main_pc' = "exit"
    /\ UNCHANGED <<argv, fs, pdf_files, writer, written, dirs, stdout, raised, parsed>>
    /\ UNCHANGED parserVars

NextMain ==
    \/ \E a \in Arguments, f \in FileSystems : MainStart(a, f)
    \/ MainUsage
    \/ MainList
    \/ MainParse
    \/ \E writable \in BOOLEAN : MainWrite(writable)
    \/ MainEnd

SpecMain == Init /\ [][NextMain]_vars

(***************************************************************************)
(* ExcelWriter.write called on its own, on any lists a caller may pass     *)
(***************************************************************************)
\* the lists parse can return for one page of input
TransactionLists ==
    {parse(NewParser, <<page>>).transactions : page \in PagesUpTo(MaxInput)}

SummaryLists ==
    {parse(NewParser, <<page>>).summary : page \in PagesUpTo(MaxInput)}

\* ExcelWriter(transactions, summary, output_path)
InitWriter ==
    /\ ParserInit
    /\ argv = <<>>
    /\ fs = [kind |-> "missing", names |-> <<>>, docs |-> <<>>]
    /\ main_pc = "caller"
    /\ pdf_files = <<>>
    /\ \E t \in TransactionLists, s \in SummaryLists :
           writer = <<[transactions |-> t, summary |-> s,
                       output_path |-> [dir |-> "output", base_name |-> "a",
                                        ext |-> ".xlsx"]]>>
    /\ written = {}
    /\ dirs = {}
    /\ stdout = <<>>
    /\ exit_code = {}
    /\ raised = ""
    /\ parsed = <<>>

\* writer.write() called by any caller: the exception, if any, reaches it
WriterWrite(writable) ==
    /\ main_pc = "caller"
    /\ LET out == write(writer[1], writable)
       IN /\ raised' = out.raises
          /\ written' = IF out.created THEN written \cup {writer[1].output_path}
                        ELSE written
    /\ main_pc' = "done"
    /\ UNCHANGED <<argv, fs, pdf_files, writer, dirs, stdout, exit_code, parsed>>
    /\ UNCHANGED parserVars

NextWriter == \E writable \in BOOLEAN : WriterWrite(writable)

SpecWriter == InitWriter /\ [][NextWriter]_vars

\* C14: write() with an empty transaction collection or an empty summary
\* collection raises ValueError to its caller and writes no output file.
C14_WriterRefusesEmpty ==
    (main_pc = "done" /\ (writer[1].transactions = <<>> \/ writer[1].summary = <<>>))
        => (raised = "ValueError" /\ written = {})

\* write() was called with transactions and no summary, and refused
C14_Witness ==
    /\ main_pc = "done"
    /\ writer[1].transactions # <<>>
    /\ writer[1].summary = <<>>
    /\ raised = "ValueError"
    /\ written = {}

\* the recognised files of the directory, in the order of the listing
Recognized == SelectSeq(fs.names, IsPdf)

\* main was given a source path and that path is a directory
DirectoryRun == Len(argv) >= 2 /\ fs.kind = "dir"

Printed(msg) == \E i \in 1..Len(stdout) : stdout[i] = msg

\* C15: for a directory input the CLI produces one artifact per recognised
\* file, named after the file's base name, whatever the files parse to, and
\* reports completion for each file (a destination that cannot be written
\* aside).
C15_ArtifactPerFile ==
    (main_pc = "exit" /\ DirectoryRun /\ raised # "IOError")
        => /\ \A i \in 1..Len(Recognized) :
                  /\ OutputExcel(Recognized[i]) \in written
                  /\ Printed(<<"Processed", Recognized[i]>>)
           /\ written = {OutputExcel(Recognized[i]) : i \in 1..Len(Recognized)}

\* C16: with no source path the CLI prints the usage and exits with status 1;
\* with a directory that holds no recognised file it prints that nothing was
\* found and exits with status 0; in both cases no file is parsed or written.
C16_UsageAndNothingFound ==
    /\ (main_pc = "exit" /\ Len(argv) < 2)
           => /\ exit_code = {1}
              /\ stdout = << <<"Usage: python main.py <input_directory> [output_directory]">> >>
              /\ parsed = <<>>
              /\ written = {}
    /\ (main_pc = "exit" /\ DirectoryRun /\ Recognized = <<>>)
           => /\ exit_code = {0}
              /\ stdout = << <<"No PDF files found in", argv[2]>> >>
              /\ parsed = <<>>
              /\ written = {}

\* a directory that holds a file, none recognised: exit 0, nothing found
C16_Witness ==
    /\ main_pc = "exit"
    /\ DirectoryRun
    /\ fs.names = <<"notes.txt">>
    /\ exit_code = {0}
    /\ Printed(<<"No PDF files found in", argv[2]>>)

IsPrefix(s, t) == Len(s) <= Len(t) /\ \A i \in 1..Len(s) : s[i] = t[i]

IsBeginningBalanceLine(line) ==
    /\ ~footer_patterns(line)
    /\ ~header_tokens(line)
    /\ ~account_header_pattern(line).matched
    /\ beginning_balance_pattern(line).matched

C21_Step ==
    (pc = "lines" /\ IsBeginningBalanceLine(CurrentLine)) =>
        /\ current_beginning_balance' = beginning_balance_pattern(CurrentLine).g1
        /\ branch' = "beginning_balance"
        /\ UNCHANGED <<current_account_id, current_account_desc, transactions,
                       summary, header_lines>>

C21_BeginningBalanceOnly == [][C21_Step]_vars

\* two beginning-balance lines with different amounts were read: the second won
C21_Witness ==
    /\ Len(ProcessedLines) = 2
    /\ IsBeginningBalanceLine(ProcessedLines[1])
    /\ IsBeginningBalanceLine(ProcessedLines[2])
    /\ beginning_balance_pattern(ProcessedLines[1]).g1 = <<"1000.00">>
    /\ beginning_balance_pattern(ProcessedLines[2]).g1 = <<"500.00">>
    /\ current_beginning_balance = <<"500.00">>
    /\ summary = <<>>

(***************************************************************************)
(* C22. The transaction list and the summary list are append-only: every   *)
(* step leaves each list unchanged or adds exactly one record at its end,  *)
(* the records already in it staying as they are and where they are.       *)
(***************************************************************************)
\* t is s, or s with one record added at its end
SameOrOneAppended(s, t) ==
    \/ t = s
    \/ Len(t) = Len(s) + 1 /\ SubSeq(t, 1, Len(s)) = s

C22_Step ==
    /\ SameOrOneAppended(transactions, transactions')
    /\ SameOrOneAppended(summary, summary')

OnePage(lines) ==
    IF lines = <<>> THEN <<>> ELSE <<[extracted |-> TRUE, lines |-> lines]>>

C23_PageStep ==
    (Len(pages') = Len(pages) + 1) =>
        UNCHANGED <<transactions, summary, current_account_id, current_account_desc,
                    current_beginning_balance, header_lines>>

C23_SplitIndependent ==
    \A i \in 1..Len(calls) :
        [transactions |-> calls[i].transactions, summary |-> calls[i].summary]
            = parse(calls[i].entry, OnePage(LinesOf(calls[i].pages)))

C23_ContextSurvivesPages == [][C23_PageStep]_vars /\ []C23_SplitIndependent

\* an account header on one page, a transaction on the next: it went to that account
C23_Witness ==
    /\ Returned
    /\ Len(calls) = 1
    /\ Len(calls[1].pages) = 2
    /\ ~NoText(calls[1].pages[1])
    /\ ~NoText(calls[1].pages[2])
    /\ OpensAccount(calls[1].pages[1].lines[1])
    /\ IsTransactionLine(calls[1].pages[2].lines[1])
    /\ Len(transactions) = 1
    /\ transactions[1].account_id
           = account_header_pattern(calls[1].pages[1].lines[1]).g1
    /\ Len(summary) = 1

(***************************************************************************)
(* C24. The beginning balance of the open account, and the                 *)
(* beginning_balance of every summary, is None or the amount of a          *)
(* beginning-balance line read after the header line of that account and   *)
(* before the next account header line: an account never has a balance     *)
(* from a line read before its header.                                     *)
(***************************************************************************)
\* the positions in lines of the account header lines
HeaderPositions(lines) == {i \in 1..Len(lines) : OpensAccount(lines[i])}

\* the position of the k-th account header line
HeaderPosition(lines, k) ==
    CHOOSE p \in HeaderPositions(lines) :
        Cardinality({q \in HeaderPositions(lines) : q <= p}) = k

\* the positions after the k-th account header line and before the next one
BlockPositions(lines, k) ==
    {j \in 1..Len(lines) :
        /\ j > HeaderPosition(lines, k)
        /\ \A q \in HeaderPositions(lines) : q > HeaderPosition(lines, k) => j < q}

\* lines holds a beginning-balance line of amount b at one of positions
BalanceLineAt(lines, positions, b) ==
    \E j \in positions :
        /\ IsBeginningBalanceLine(lines[j])
        /\ beginning_balance_pattern(lines[j]).g1 = b

C24_OpenBalance ==
    (current_account_id # None /\ current_beginning_balance # None) =>
        BalanceLineAt(ProcessedLines,
                      BlockPositions(ProcessedLines,
                                     Cardinality(HeaderPositions(ProcessedLines))),
                      current_beginning_balance)

C24_OwnBalance ==
    \A k \in 1..Len(summary) :
        \/ summary[k].beginning_balance = None
        \/ BalanceLineAt(ProcessedLines, BlockPositions(ProcessedLines, k),
                         summary[k].beginning_balance)

C24_NoInheritedBalance == C24_OpenBalance /\ C24_OwnBalance

(***************************************************************************)
(* C25. A summary is appended only by a step taken while an account is     *)
(* open; a line with the total label and its four amounts processed while  *)
(* no account is open appends nothing and changes no field; and every      *)
(* summary in the list has an account_id that is not None.                 *)
(***************************************************************************)
\* a line with the total label and four amounts that no check before the
\* transaction check takes
HasTotalShape(line) ==
    /\ ~footer_patterns(line)
    /\ ~header_tokens(line)
    /\ ~account_header_pattern(line).matched
    /\ ~beginning_balance_pattern(line).matched
    /\ total_line_pattern(line).matched

C25_Step ==
    /\ (Len(summary') > Len(summary)) => current_account_id # None
    /\ (pc = "lines" /\ HasTotalShape(CurrentLine) /\ current_account_id = None) =>
           UNCHANGED <<transactions, summary, current_account_id,
                       current_account_desc, current_beginning_balance, header_lines>>

C25_EverySummaryHasId ==
    \A k \in 1..Len(summary) : summary[k].account_id # None

C25_SummaryOnlyWhileOpen == [][C25_Step]_vars /\ []C25_EverySummaryHasId

\* a totals line was read after a beginning-balance line, no account being
\* open: nothing was appended, also not by the return of parse
C25_Witness ==
    /\ Returned
    /\ Len(calls) = 1
    /\ Len(ProcessedLines) = 2
    /\ IsBeginningBalanceLine(ProcessedLines[1])
    /\ IsTotalsLine(ProcessedLines[2])
    /\ branch = "total"
    /\ summary = <<>>
    /\ current_beginning_balance # None

(***************************************************************************)
(* C26. When parse has returned no account is open: current_account_id,    *)
(* current_account_desc and current_beginning_balance are all None.        *)
(***************************************************************************)
C26_ClosedAtReturn ==
    Returned =>
        /\ current_account_id = None
        /\ current_account_desc = None
        /\ current_beginning_balance = None

(***************************************************************************)
(* One call of parse on a new parser, under the scheduling of a            *)
(* synchronous loop: while the call is running, its next step is taken.    *)
(***************************************************************************)
\* parser.parse() as main calls it: once, on a new parser
ParseOpenOnce == calls = <<>> /\ ParseOpen

NextParse ==
    \/ ParseOpenOnce
    \/ \E page \in PagesUpTo(0) : SkipPage(page)
    \/ \E page \in PagesUpTo(InputLeft) : ReadPage(page)
    \/ FooterLine
    \/ HeaderDetailLine
    \/ AccountHeaderLine
    \/ BeginningBalanceLine
    \/ TransactionLine
    \/ TotalLine
    \/ UnmatchedLine
    \/ ParseReturn

ParseStep == pc # "idle" /\ NextParse

SpecParseRuns == Init /\ [][NextParse]_vars /\ WF_vars(ParseStep)

(***************************************************************************)
(* C27. parse is one linear pass that ends: a running call returns; each   *)
(* step on a page with text hands exactly the next line of that page to    *)
(* _process_line, once, and the page is left only after its last line;     *)
(* pages are taken in order; parse returns, after its final flush, only    *)
(* when no line of the last page is left; and what a call returns is what  *)
(* the fold of _process_line over the lines of its pages, in page order    *)
(* and in-page order, followed by the final flush, gives.                  *)
(***************************************************************************)
C27_Step ==
    /\ (pc = "lines") =>
           /\ Self' = _process_line(Self, CurrentLine).self
           /\ pages' = pages
           /\ IF lineNo < Len(pages[Len(pages)].lines)
              THEN pc' = "lines" /\ lineNo' = lineNo + 1
              ELSE pc' = "pages" /\ lineNo' = 0
    /\ (pc = "pages" /\ pc' # "idle") =>
           /\ Len(pages') = Len(pages) + 1
           /\ SubSeq(pages', 1, Len(pages)) = pages
           /\ IF NoText(pages'[Len(pages')])
              THEN pc' = "pages" /\ lineNo' = 0
              ELSE pc' = "lines" /\ lineNo' = 1
    /\ (pc # "idle" /\ pc' = "idle") =>
           /\ pc = "pages"
           /\ lineNo = 0
           /\ calls'[Len(calls')].pages = pages

C27_Fold ==
    \A i \in 1..Len(calls) :
        [transactions |-> calls[i].transactions, summary |-> calls[i].summary]
            = parse(calls[i].entry, calls[i].pages)

C27_LinearPass ==
    /\ [][C27_Step]_vars
    /\ []C27_Fold
    /\ (pc # "idle") ~> (pc = "idle")

\* two pages of one account header line each were read, and parse returned
\* their two summaries in page order
C27_Witness ==
    /\ Returned
    /\ Len(calls) = 1
    /\ Len(calls[1].pages) = 2
    /\ ~NoText(calls[1].pages[1])
    /\ ~NoText(calls[1].pages[2])
    /\ Len(calls[1].summary) = 2
    /\ calls[1].summary[1].account_id
           = account_header_pattern(calls[1].pages[1].lines[1]).g1
    /\ calls[1].summary[2].account_id
           = account_header_pattern(calls[1].pages[2].lines[1]).g1
    /\ calls[1].summary[1].account_id # calls[1].summary[2].account_id

(***************************************************************************)
(* The column-title row of the ledger, and whether it has been processed   *)
(* on the page being read.                                                 *)
(***************************************************************************)
ColumnTitles == <<"ID", "Memo">>

ColumnTitlesSeen ==
    /\ pc = "lines"
    /\ \E j \in 1..(lineNo - 1) : pages[Len(pages)].lines[j] = ColumnTitles

\* C28 as stated: the parser context has a flag header_region_closed, true
\* exactly when the column-title row has been observed on the current page
\* (so false again at the start of each page).
C28_HeaderRegionFlag ==
    /\ "header_region_closed" \in DOMAIN Self
    /\ Self.header_region_closed = ColumnTitlesSeen

(***************************************************************************)
(* C28. The parser context has no per-page state: its fields are the two   *)
(* lists, the three account context fields and header_lines; taking a page *)
(* changes none of them, and neither does processing the column-title row; *)
(* header_lines only grows at its end, so the captured banner lines        *)
(* persist across pages.                                                   *)
(***************************************************************************)
C28_Step ==
    /\ (Len(pages') = Len(pages) + 1) => Self' = Self
    /\ (pc = "lines" /\ CurrentLine = ColumnTitles) => Self' = Self
    /\ IsPrefix(header_lines, header_lines')

C28_Fields ==
    DOMAIN Self = {"transactions", "summary", "current_account_id",
                   "current_account_desc", "current_beginning_balance",
                   "header_lines"}

C28_NoPerPageState == [][C28_Step]_vars /\ []C28_Fields

\* a banner line was captured on one page and the column-title row read on
\* the next: the banner line is still captured and nothing else has changed
C28_Witness ==
    /\ Len(AllPages) = 2
    /\ Len(ProcessedLines) = 2
    /\ header_tokens(ProcessedLines[1])
    /\ ProcessedLines[2] = ColumnTitles
    /\ header_lines = <<ProcessedLines[1]>>
    /\ branch = "none"
    /\ [Self EXCEPT !.header_lines = <<>>] = NewParser

====
